---- MODULE Spec2Model ----
(***************************************************************************)
(* Exercise tracker (src/server.js): an Express application with four      *)
(* JSON routes over two Mongoose collections, User and Exercise.           *)
(*                                                                         *)
(* A request is handled by an async function; between two awaits of one    *)
(* handler the store calls of other requests may run.  Each handler is     *)
(* therefore one action per store call it awaits, and a request slot p     *)
(* holds the handler's position (pc), its request (req), its local         *)
(* variables (loc) and the response it has sent (resp).                    *)
(*                                                                         *)
(* Strings are sequences of one-character strings, so that trim(),         *)
(* Number() and parseInt() are computed on characters.  A date literal is  *)
(* abstracted to the decimal numeral of the timestamp it denotes; any      *)
(* other text is an Invalid Date.                                          *)
(***************************************************************************)
EXTENDS Integers, Sequences, FiniteSets, TLC

\* ---------------------------------------------------------------- bounds
NumProcs == 2
MaxExercises == 2
MaxId == 3
MaxTime == 1
TicksPerDay == 2

Procs == 1..NumProcs
\* Spec handles one request at a time in the first slot.
Serial == {p \in Procs : \A q \in Procs : p <= q}
Times == 0..MaxTime

\* ------------------------------------------------- JavaScript values
\* undefined: a token no string equals (every character of a string is one
\* character long).
Undefined == <<"undefined">>

Whitespace == {" "}
Digits == <<"0", "1", "2", "3", "4", "5", "6", "7", "8", "9">>

IsDigit(c) == \E i \in DOMAIN Digits : Digits[i] = c
DigitValue(c) == (CHOOSE i \in DOMAIN Digits : Digits[i] = c) - 1

\* A JavaScript number: NaN, or an integer.
NaN == [nan |-> TRUE, val |-> 0]
Num(n) == [nan |-> FALSE, val |-> n]

\* !v for a string or undefined.
FalsyString(v) == v = Undefined \/ v = <<>>
\* !n for a number.
FalsyNumber(n) == n.nan \/ n.val = 0

RECURSIVE TrimStart(_)
TrimStart(s) ==
  IF s # <<>> /\ Head(s) \in Whitespace THEN TrimStart(Tail(s)) ELSE s

RECURSIVE TrimEnd(_)
TrimEnd(s) ==
  IF s # <<>> /\ s[Len(s)] \in Whitespace
    THEN TrimEnd(SubSeq(s, 1, Len(s) - 1))
    ELSE s

\* String.prototype.trim
Trim(s) == TrimEnd(TrimStart(s))

AllDigits(s) == \A i \in DOMAIN s : IsDigit(s[i])

RECURSIVE DigitsValue(_)
DigitsValue(s) ==
  IF s = <<>> THEN 0
  ELSE Len(Digits) * DigitsValue(SubSeq(s, 1, Len(s) - 1)) + DigitValue(s[Len(s)])

RECURSIVE DigitPrefix(_)
DigitPrefix(s) ==
  IF s # <<>> /\ IsDigit(Head(s)) THEN <<Head(s)>> \o DigitPrefix(Tail(s)) ELSE <<>>

Signed(sign, n) == IF sign = "-" THEN 0 - n ELSE n

\* Number(v): undefined is NaN; a string is trimmed, "" is 0, an optionally
\* signed decimal numeral is its value, anything else is NaN.
ToNumber(v) ==
  IF v = Undefined THEN NaN
  ELSE LET t == Trim(v)
           signed == t # <<>> /\ Head(t) \in {"+", "-"}
           body == IF signed THEN Tail(t) ELSE t
       IN  IF t = <<>> THEN Num(0)
           ELSE IF body # <<>> /\ AllDigits(body)
             THEN Num(Signed(Head(t), DigitsValue(body)))
             ELSE NaN

\* parseInt(v, 10): leading whitespace and a sign are skipped, the longest
\* prefix of digits is read, what follows is ignored; no digit is NaN.
ParseInt(v) ==
  IF v = Undefined THEN NaN
  ELSE LET t == TrimStart(v)
           signed == t # <<>> /\ Head(t) \in {"+", "-"}
           body == IF signed THEN Tail(t) ELSE t
           ds == DigitPrefix(body)
       IN  IF ds = <<>> THEN NaN ELSE Num(Signed(Head(t), DigitsValue(ds)))

\* new Date(v).getTime() for a string.
NewDate(v) == IF v # <<>> /\ AllDigits(v) THEN Num(DigitsValue(v)) ELSE NaN

\* toFCCDateString: Date.prototype.toDateString names the calendar day of a
\* timestamp and drops the time of day.
toFCCDateString(d) == <<"day", d \div TicksPerDay>>

\* ---------------------------------------------------------- request inputs
Usernames == {Undefined, <<>>, <<" ">>, <<"a">>, <<" ", "a", " ">>, <<"b">>}
Descriptions == {Undefined, <<" ">>, <<" ", "r">>}
Durations == {Undefined, <<"x">>, <<"0">>, <<"5">>, <<"-", "5">>}
DateInputs == {Undefined, <<"x">>, <<"1">>}
RangeInputs == {Undefined, <<"x">>, <<"0">>, <<"1">>}
LimitInputs == {Undefined, <<"x">>, <<"0">>, <<"-", "1">>, <<"1">>, <<"2">>, <<"1", "x">>}
IdInputs == 1..MaxId

\* Spec explores every body of POST .../exercises for one username.
WriterNames == {Undefined, <<" ">>, <<" ", "a", " ">>}

\* SpecLogs explores the queries of GET .../logs over two users' exercises,
\* logged with a fixed description and duration: every pair of from and to
\* without a limit, and every limit without and with a from.
ReaderNames == {<<"a">>, <<"b">>}
ReaderDates == {Undefined, <<"0">>, <<"1">>}
Queries ==
  {<<from, to, Undefined>> : from \in RangeInputs, to \in RangeInputs}
    \cup {<<from, Undefined, limit>> : from \in {Undefined, <<"1">>}, limit \in LimitInputs}

\* ------------------------------------------------------------------ state
VARIABLES
  users,      \* the User collection: records [_id, username]
  exercises,  \* the Exercise collection: records [eid, userId, description, duration, date]
  pc,         \* slot -> position of its handler
  req,        \* slot -> the request being handled
  loc,        \* slot -> the handler's local variables
  resp,       \* slot -> the response sent
  creates     \* slot -> number of create calls the handler has issued

vars == <<users, exercises, pc, req, loc, resp, creates>>

NoReq == [op |-> "none"]
NoLoc == [none |-> TRUE]
NoResp == [status |-> 0]

Init ==
  /\ users = {}
  /\ exercises = {}
  /\ pc = [p \in Procs |-> "idle"]
  /\ req = [p \in Procs |-> NoReq]
  /\ loc = [p \in Procs |-> NoLoc]
  /\ resp = [p \in Procs |-> NoResp]
  /\ creates = [p \in Procs |-> 0]

\* res.status(s).json(body) / res.json(body)
Respond(p, status, body) ==
  /\ pc' = [pc EXCEPT ![p] = "done"]
  /\ resp' = [resp EXCEPT ![p] = [status |-> status, body |-> body]]

ServerError == [error |-> "server error"]

\* ------------------------------------------------------------ User store
\* models/User.js is not part of the sources; the store is the persistence
\* collaborator the design describes: create is atomic, generates the _id and
\* enforces the uniqueness of username; a faulty store may also fail a call.
NewUserId == Cardinality(users) + 1

UserExists(name) == \E u \in users : u.username = name

CreateUserOutcomes(name, faulty) ==
  (IF UserExists(name) THEN {"duplicate"} ELSE {"ok"})
    \cup (IF faulty THEN {"error"} ELSE {})

FindOneOutcomes(name, faulty) ==
  (IF UserExists(name) THEN {"found"} ELSE {"none"})
    \cup (IF faulty THEN {"none", "throws"} ELSE {})

\* User.findById(_id).lean(): the record, or none.
FindById(id) == {u \in users : u._id = id}

DuplicateKeyCode == 11000
DuplicateError == [code |-> DuplicateKeyCode, keyPattern |-> {"username"}]
OtherError == [code |-> 0, keyPattern |-> {}]

\* ---------------------------------------------------------- POST /api/users
UsernameMissing_NoTrim(username) == FalsyString(username)

\* !username || !username.trim()
UsernameMissing(username) == FalsyString(username) \/ Trim(username) = <<>>

IsDuplicateKey_Never(err) == FALSE

\* err.code === 11000 && err.keyPattern?.username
IsDuplicateKey(err) == err.code = DuplicateKeyCode /\ "username" \in err.keyPattern

\* The handler up to its first await: validation, then User.create is issued.
Register(p, username) ==
  /\ pc[p] = "idle"
  /\ req' = [req EXCEPT ![p] = [op |-> "register", username |-> username]]
  /\ IF UsernameMissing(username)
       THEN /\ Respond(p, 400, [error |-> "username is required"])
            /\ UNCHANGED loc
       ELSE /\ pc' = [pc EXCEPT ![p] = "reg_create"]
            /\ loc' = [loc EXCEPT ![p] = [name |-> Trim(username)]]
            /\ UNCHANGED resp
  /\ UNCHANGED <<users, exercises, creates>>

\* User.create settles: the response, or the catch block.
RegisterCreate(p, faulty) ==
  /\ pc[p] = "reg_create"
  /\ creates' = [creates EXCEPT ![p] = @ + 1]
  /\ \E out \in CreateUserOutcomes(loc[p].name, faulty) :
       LET user == [_id |-> NewUserId, username |-> loc[p].name]
           err == IF out = "duplicate" THEN DuplicateError ELSE OtherError
       IN  IF out = "ok"
             THEN /\ users' = users \cup {user}
                  /\ Respond(p, 200, [username |-> user.username, _id |-> user._id])
             ELSE IF IsDuplicateKey(err)
               THEN /\ pc' = [pc EXCEPT ![p] = "reg_conflict"]
                    /\ UNCHANGED <<users, resp>>
               ELSE /\ Respond(p, 500, ServerError)
                    /\ UNCHANGED users
  /\ UNCHANGED <<exercises, req, loc>>

\* User.findOne in the catch block settles.  Nothing catches what the catch
\* block throws: a failed lookup, or existing.username of no record, rejects
\* the handler's promise.
RegisterConflict(p, faulty) ==
  /\ pc[p] = "reg_conflict"
  /\ \E out \in FindOneOutcomes(Trim(req[p].username), faulty) :
       IF out = "found"
         THEN LET existing == CHOOSE u \in users : u.username = Trim(req[p].username)
              IN  /\ Respond(p, 200, [username |-> existing.username, _id |-> existing._id])
         ELSE /\ pc' = [pc EXCEPT ![p] = "rejected"]
              /\ UNCHANGED resp
  /\ UNCHANGED <<users, exercises, req, loc, creates>>

\* A rejected handler promise.  Express 4 ignores what an async handler
\* returns, so no response is ever sent; Express 5 passes the rejection to its
\* default error handler, which answers 500.  The sources do not pin the
\* version.
Rejected(p, express5) ==
  /\ pc[p] = "rejected"
  /\ IF express5
       THEN Respond(p, 500, [error |-> "default error handler"])
       ELSE /\ pc' = [pc EXCEPT ![p] = "hung"]
            /\ UNCHANGED resp
  /\ UNCHANGED <<users, exercises, req, loc, creates>>

\* ----------------------------------------------------------- GET /api/users
\* User.find({}, { username: 1 }): every user, in the store's order.
ListUsers(p) ==
  /\ pc[p] = "idle"
  /\ req' = [req EXCEPT ![p] = [op |-> "listUsers"]]
  /\ Respond(p, 200, users)
  /\ UNCHANGED <<users, exercises, loc, creates>>

\* The client has its response; the slot takes the next request.
Return(p) ==
  /\ pc[p] = "done"
  /\ pc' = [pc EXCEPT ![p] = "idle"]
  /\ req' = [req EXCEPT ![p] = NoReq]
  /\ loc' = [loc EXCEPT ![p] = NoLoc]
  /\ resp' = [resp EXCEPT ![p] = NoResp]
  /\ creates' = [creates EXCEPT ![p] = 0]
  /\ UNCHANGED <<users, exercises>>

\* --------------------------------------------- POST /api/users/:_id/exercises
LogExerciseCheck_ValidateFirst(found, description, dur) ==
  IF FalsyString(description) \/ FalsyNumber(dur) THEN "invalid"
  ELSE IF ~found THEN "notfound"
  ELSE "ok"

\* if (!user) 404; if (!description || !dur) 400
LogExerciseCheck(found, description, dur) ==
  IF ~found THEN "notfound"
  ELSE IF FalsyString(description) \/ FalsyNumber(dur) THEN "invalid"
  ELSE "ok"

\* let d = date ? new Date(date) : new Date(); if (isNaN(d.getTime())) d = new Date()
ResolveDate(date, now) ==
  IF FalsyString(date) \/ NewDate(date).nan THEN now ELSE NewDate(date).val

\* User.findById settles: 404, 400, or Exercise.create is issued.
LogExercise(p, id, description, duration, date, now) ==
  LET found == FindById(id)
      dur == ToNumber(duration)
      outcome == LogExerciseCheck(found # {}, description, dur)
  IN  /\ pc[p] = "idle"
      /\ outcome = "ok" => Cardinality(exercises) < MaxExercises
      /\ req' = [req EXCEPT ![p] = [op |-> "logExercise", _id |-> id,
                   description |-> description, duration |-> duration, date |-> date]]
      /\ CASE outcome = "notfound" ->
                /\ Respond(p, 404, [error |-> "user not found"])
                /\ UNCHANGED loc
           [] outcome = "invalid" ->
                /\ Respond(p, 400, [error |-> "description and duration are required"])
                /\ UNCHANGED loc
           [] OTHER ->
                /\ pc' = [pc EXCEPT ![p] = "log_create"]
                /\ loc' = [loc EXCEPT ![p] =
                     [user |-> CHOOSE u \in found : TRUE,
                      description |-> Trim(description),
                      duration |-> dur.val,
                      date |-> ResolveDate(date, now)]]
                /\ UNCHANGED resp
      /\ UNCHANGED <<users, exercises, creates>>

NewExercise(p) ==
  [eid |-> Cardinality(exercises) + 1,
   userId |-> loc[p].user._id,
   description |-> loc[p].description,
   duration |-> loc[p].duration,
   date |-> loc[p].date]

ExerciseView(user, ex) ==
  [_id |-> user._id, username |-> user.username, date |-> toFCCDateString(ex.date),
   duration |-> ex.duration, description |-> ex.description]

LogExerciseCreate_Upsert(p) ==
  /\ pc[p] = "log_create"
  /\ creates' = [creates EXCEPT ![p] = @ + 1]
  /\ exercises' = {e \in exercises : e.userId # loc[p].user._id} \cup {NewExercise(p)}
  /\ Respond(p, 200, ExerciseView(loc[p].user, NewExercise(p)))
  /\ UNCHANGED <<users, req, loc>>

\* Exercise.create settles: the record is stored and the view is sent.
LogExerciseCreate(p) ==
  /\ pc[p] = "log_create"
  /\ creates' = [creates EXCEPT ![p] = @ + 1]
  /\ exercises' = exercises \cup {NewExercise(p)}
  /\ Respond(p, 200, ExerciseView(loc[p].user, NewExercise(p)))
  /\ UNCHANGED <<users, req, loc>>

\* ------------------------------------------------- GET /api/users/:_id/logs
RangeBound(v) == IF ~FalsyString(v) /\ ~NewDate(v).nan THEN {NewDate(v).val} ELSE {}

BuildQuery_NoTo(user, from, to) ==
  [userId |-> user._id, gte |-> RangeBound(from), lte |-> {}]

\* query = { userId }; query.date.$gte / $lte for each of from, to that is
\* given and parses; an empty query.date is deleted.
BuildQuery(user, from, to) ==
  [userId |-> user._id, gte |-> RangeBound(from), lte |-> RangeBound(to)]

ParseLimit_Lenient(limit) ==
  LET lim == ParseInt(limit) IN IF lim.nan THEN {} ELSE {lim.val}

\* let lim = parseInt(limit, 10); if (isNaN(lim) || lim < 1) lim = undefined
ParseLimit(limit) ==
  LET lim == ParseInt(limit) IN IF lim.nan \/ lim.val < 1 THEN {} ELSE {lim.val}

Matches(e, query) ==
  /\ e.userId = query.userId
  /\ \A t \in query.gte : e.date >= t
  /\ \A t \in query.lte : e.date <= t

Orderings(S) ==
  {s \in [1..Cardinality(S) -> S] : \A i, j \in DOMAIN s : i # j => s[i] # s[j]}

SortedByDate_Unsorted(S) == Orderings(S)

\* sort: { date: 1 }; the order of equal dates is the store's choice.
SortedByDate(S) ==
  {s \in Orderings(S) : \A i, j \in DOMAIN s : i < j => s[i].date <= s[j].date}

\* limit: lim; a negative limit is read as its absolute value, 0 as no limit.
Limited(s, lim) ==
  IF lim = {} THEN s
  ELSE LET l == CHOOSE x \in lim : TRUE
           n == IF l < 0 THEN 0 - l ELSE l
       IN  IF n = 0 \/ n >= Len(s) THEN s ELSE SubSeq(s, 1, n)

\* User.findById settles: 404, or the query is built and Exercise.find issued.
GetLogs(p, id, from, to, limit) ==
  LET found == FindById(id)
  IN  /\ pc[p] = "idle"
      /\ req' = [req EXCEPT ![p] = [op |-> "getLogs", _id |-> id,
                   from |-> from, to |-> to, limit |-> limit]]
      /\ IF found = {}
           THEN /\ Respond(p, 404, [error |-> "user not found"])
                /\ UNCHANGED loc
           ELSE LET user == CHOOSE u \in found : TRUE
                IN  /\ pc' = [pc EXCEPT ![p] = "logs_find"]
                    /\ loc' = [loc EXCEPT ![p] =
                         [user |-> user,
                          query |-> BuildQuery(user, from, to),
                          lim |-> ParseLimit(limit)]]
                    /\ UNCHANGED resp
      /\ UNCHANGED <<users, exercises, creates>>

LogEntry(e) ==
  [description |-> e.description, duration |-> e.duration, date |-> toFCCDateString(e.date)]

\* Exercise.find settles: the log view is sent.
GetLogsFind(p) ==
  /\ pc[p] = "logs_find"
  /\ \E sorted \in SortedByDate({e \in exercises : Matches(e, loc[p].query)}) :
       LET found == Limited(sorted, loc[p].lim)
       IN  /\ loc' = [loc EXCEPT ![p] = [user |-> loc[p].user, query |-> loc[p].query,
                                          lim |-> loc[p].lim, exercises |-> found]]
           /\ Respond(p, 200,
                [username |-> loc[p].user.username,
                 count |-> Len(found),
                 _id |-> loc[p].user._id,
                 log |-> [i \in DOMAIN found |-> LogEntry(found[i])]])
  /\ UNCHANGED <<users, exercises, req, creates>>

\* ------------------------------------------------------------ specifications
\* The whole service, one request at a time, reliable store: the writes.
Next ==
  \E p \in Serial :
    \/ \E u \in WriterNames : Register(p, u)
    \/ RegisterCreate(p, FALSE)
    \/ RegisterConflict(p, FALSE)
    \/ ListUsers(p)
    \/ \E id \in IdInputs, description \in Descriptions, duration \in Durations,
          date \in DateInputs, now \in Times :
         LogExercise(p, id, description, duration, date, now)
    \/ LogExerciseCreate(p)
    \/ \E id \in IdInputs : GetLogs(p, id, Undefined, Undefined, Undefined)
    \/ GetLogsFind(p)
    \/ Return(p)

Spec == Init /\ [][Next]_vars

\* The whole service, one request at a time, reliable store: the reads.
NextLogs ==
  \E p \in Serial :
    \/ \E u \in ReaderNames : Register(p, u)
    \/ RegisterCreate(p, FALSE)
    \/ RegisterConflict(p, FALSE)
    \/ ListUsers(p)
    \/ \E id \in IdInputs, date \in ReaderDates, now \in Times :
         LogExercise(p, id, <<"r">>, <<"5">>, date, now)
    \/ LogExerciseCreate(p)
    \/ \E id \in IdInputs, q \in Queries : GetLogs(p, id, q[1], q[2], q[3])
    \/ GetLogsFind(p)
    \/ Return(p)

SpecLogs == Init /\ [][NextLogs]_vars

\* The User Registry under concurrent requests, reliable store.
NextRegistry ==
  \E p \in Procs :
    \/ \E u \in Usernames : Register(p, u)
    \/ RegisterCreate(p, FALSE)
    \/ RegisterConflict(p, FALSE)
    \/ ListUsers(p)
    \/ Return(p)

SpecRegistry == Init /\ [][NextRegistry]_vars

\* The User Registry under concurrent requests, over a store that may fail.
NextFaulty ==
  \E p \in Procs :
    \/ \E u \in Usernames : Register(p, u)
    \/ RegisterCreate(p, TRUE)
    \/ RegisterConflict(p, TRUE)
    \/ \E express5 \in BOOLEAN : Rejected(p, express5)
    \/ ListUsers(p)
    \/ Return(p)

SpecFaulty == Init /\ [][NextFaulty]_vars

\* ==================================================================== claims
Done(p, op) == pc[p] = "done" /\ req[p].op = op

IdStored(id) == \E u \in users : u._id = id

\* A string with a character that is not whitespace.
NonEmptyAfterTrim(v) == v # Undefined /\ \E i \in DOMAIN v : v[i] \notin Whitespace

\* v is given and parses to a date.
ValidDate(v) == v # Undefined /\ ~NewDate(v).nan

\* e lies in the inclusive range that the valid ones of from and to bound.
InRange(e, from, to) ==
  /\ ValidDate(from) => e.date >= NewDate(from).val
  /\ ValidDate(to) => e.date <= NewDate(to).val

\* The exercises of the user of slot p's request that lie in its range.
Matching(p) ==
  {e \in exercises : e.userId = req[p]._id /\ InRange(e, req[p].from, req[p].to)}

Range(s) == {s[i] : i \in DOMAIN s}

PositiveLimit(v) == ~ParseInt(v).nan /\ ParseInt(v).val >= 1

Smaller(a, b) == IF a <= b THEN a ELSE b

\* C1: any two register calls with the same username that is non-empty after
\* trimming, one after the other or concurrent, both succeed (200) and return
\* the same _id; none fails because the username exists.
C1_RegisterIdempotent ==
  \A p, q \in Procs :
    ( /\ Done(p, "register")
      /\ Done(q, "register")
      /\ req[p].username = req[q].username
      /\ NonEmptyAfterTrim(req[p].username) )
    => /\ resp[p].status = 200
       /\ resp[q].status = 200
       /\ resp[p].body._id = resp[q].body._id
       /\ resp[p].body.username = resp[q].body.username

\* Two calls with one username have both been answered, by one stored user:
\* the later create was refused as a duplicate.
C1_Witness ==
  \E p, q \in Procs :
    /\ p # q
    /\ Done(p, "register")
    /\ Done(q, "register")
    /\ req[p].username = req[q].username
    /\ NonEmptyAfterTrim(req[p].username)
    /\ resp[p].status = 200
    /\ resp[q].status = 200
    /\ Cardinality(users) = 1

\* C2: every register call ends with a response, whatever the store does: when
\* create reports a duplicate and the fallback lookup throws or finds nothing,
\* the call answers 500 and never ends with no response.
C2_RegisterAlwaysResponds ==
  \A p \in Procs : req[p].op = "register" => pc[p] # "hung"

C4_BlankDescriptionRejected ==
  /\ \A p \in Procs :
       ( /\ req[p].op = "logExercise"
         /\ IdStored(req[p]._id)
         /\ ~NonEmptyAfterTrim(req[p].description) )
       => (pc[p] = "done" /\ resp[p].status = 400 /\ creates[p] = 0)
  /\ \A e \in exercises : NonEmptyAfterTrim(e.description)

\* C5: logExercise on an existing user succeeds only with a duration that
\* converts to a number greater than zero, so every stored Exercise has
\* duration > 0.
C5_DurationPositive ==
  /\ \A p \in Procs :
       ( /\ req[p].op = "logExercise"
         /\ IdStored(req[p]._id)
         /\ (ToNumber(req[p].duration).nan \/ ToNumber(req[p].duration).val <= 0) )
       => (pc[p] = "done" /\ resp[p].status = 400 /\ creates[p] = 0)
  /\ \A e \in exercises : e.duration > 0

\* C6: getLogs without from, to and limit returns exactly the exercises of
\* that user, each once, by date ascending, and the view counts and shows them
\* in that order.
C6_UnfilteredLogSorted ==
  \A p \in Procs :
    ( /\ Done(p, "getLogs")
      /\ resp[p].status = 200
      /\ req[p].from = Undefined /\ req[p].to = Undefined /\ req[p].limit = Undefined )
    => LET found == loc[p].exercises
           log == resp[p].body.log
       IN  /\ Range(found) = {e \in exercises : e.userId = req[p]._id}
           /\ Len(found) = Cardinality(Range(found))
           /\ \A i \in DOMAIN found : i < Len(found) => found[i].date <= found[i + 1].date
           /\ resp[p].body.count = Len(found)
           /\ resp[p].body._id = req[p]._id
           /\ DOMAIN log = DOMAIN found
           /\ \A i \in DOMAIN log : log[i] = LogEntry(found[i])

\* A user's two exercises come back in the order of their dates, which is not
\* the order they were logged in.
C6_Witness ==
  \E p \in Procs :
    /\ Done(p, "getLogs")
    /\ resp[p].status = 200
    /\ req[p].from = Undefined /\ req[p].to = Undefined /\ req[p].limit = Undefined
    /\ Len(loc[p].exercises) >= 2
    /\ loc[p].exercises[1].date < loc[p].exercises[2].date
    /\ loc[p].exercises[1].eid > loc[p].exercises[2].eid

\* C7: with a limit that parses to a positive integer L, getLogs on n matching
\* exercises returns min(L, n) of them, none later than one left out, and count
\* is the number returned; with any other limit it returns all n, count = n.
C7_LimitCapsEarliest ==
  \A p \in Procs :
    (Done(p, "getLogs") /\ resp[p].status = 200)
    => LET found == loc[p].exercises
           n == Cardinality(Matching(p))
       IN  /\ Range(found) \subseteq Matching(p)
           /\ Len(found) = Cardinality(Range(found))
           /\ resp[p].body.count = Len(found)
           /\ Len(resp[p].body.log) = Len(found)
           /\ IF PositiveLimit(req[p].limit)
                THEN /\ Len(found) = Smaller(ParseInt(req[p].limit).val, n)
                     /\ \A e \in Matching(p) \ Range(found) :
                          \A i \in DOMAIN found : found[i].date <= e.date
                ELSE Len(found) = n

\* A limit of 1 on two matching exercises returns the earlier one, which was
\* logged second.
C7_Witness ==
  \E p \in Procs :
    /\ Done(p, "getLogs")
    /\ resp[p].status = 200
    /\ PositiveLimit(req[p].limit)
    /\ ParseInt(req[p].limit).val = 1
    /\ Cardinality(Matching(p)) = 2
    /\ Len(loc[p].exercises) = 1
    /\ \E e \in Matching(p) :
         e.date > loc[p].exercises[1].date /\ e.eid < loc[p].exercises[1].eid

\* C8: getLogs returns only the user's exercises within the inclusive bounds
\* that the valid ones of from and to set, and all of them when there is no
\* limit; an unparsable from or to sets no bound and is no error.
C8_RangeInclusive ==
  \A p \in Procs :
    (req[p].op = "getLogs" /\ IdStored(req[p]._id) /\ pc[p] = "done")
    => /\ resp[p].status = 200
       /\ Range(loc[p].exercises) \subseteq Matching(p)
       /\ ~PositiveLimit(req[p].limit) => Range(loc[p].exercises) = Matching(p)

\* A valid from with an unparsable to: the exercise dated exactly from is
\* returned, an earlier one of the same user is not.
C8_Witness ==
  \E p \in Procs :
    /\ Done(p, "getLogs")
    /\ resp[p].status = 200
    /\ ValidDate(req[p].from)
    /\ req[p].to = <<"x">>
    /\ \E i \in DOMAIN loc[p].exercises : loc[p].exercises[i].date = NewDate(req[p].from).val
    /\ \E e \in exercises :
         e.userId = req[p]._id /\ e.date < NewDate(req[p].from).val

\* C9: register with a username that is absent, empty or only whitespace
\* answers 400 and issues no create; every stored username is non-empty and
\* has no whitespace at either end.
C9_BlankUsernameRejected ==
  /\ \A p \in Procs :
       (req[p].op = "register" /\ ~NonEmptyAfterTrim(req[p].username))
       => (pc[p] = "done" /\ resp[p].status = 400 /\ creates[p] = 0)
  /\ \A u \in users :
       /\ u.username # <<>>
       /\ Head(u.username) \notin Whitespace
       /\ u.username[Len(u.username)] \notin Whitespace

\* A whitespace-only username has been refused and a padded one stored trimmed.
C9_Witness ==
  \E p, q \in Procs :
    /\ Done(p, "register")
    /\ req[p].username = <<" ">>
    /\ resp[p].status = 400
    /\ Done(q, "register")
    /\ req[q].username = <<" ", "a", " ">>
    /\ resp[q].status = 200
    /\ resp[q].body.username = <<"a">>

\* A call answered 400 or 404, and every listUsers and getLogs call, has issued
\* no create.
NoCreateOnRefusal ==
  \A p \in Procs :
    /\ (pc[p] = "done" /\ resp[p].status \in {400, 404}) => creates[p] = 0
    /\ req[p].op \in {"listUsers", "getLogs"} => creates[p] = 0

\* A step removes and changes no record; it adds one only as it answers 200 to
\* a register or logExercise call, and a step that answers 400 or 404 leaves
\* both collections as they were.
StoreStep ==
  /\ users \subseteq users'
  /\ exercises \subseteq exercises'
  /\ (users' # users \/ exercises' # exercises)
       => /\ Cardinality(users') + Cardinality(exercises')
               = Cardinality(users) + Cardinality(exercises) + 1
          /\ \E p \in Procs :
               /\ req[p].op \in {"register", "logExercise"}
               /\ pc[p] # "done"
               /\ pc'[p] = "done"
               /\ resp'[p].status = 200

\* C10: calls ending in 400 or 404 and the read operations issue no create and
\* leave the stored Users and Exercises unchanged; only a successful register
\* or logExercise adds a record, and nothing is ever modified or removed.
C10_Frame == []NoCreateOnRefusal /\ [][StoreStep]_vars

\* A logExercise call has been refused with 400 while an exercise is stored.
C10_Witness ==
  \E p \in Procs :
    /\ Done(p, "logExercise")
    /\ resp[p].status = 400
    /\ creates[p] = 0
    /\ exercises # {}

====
